---- MODULE Spec2Model ----
(***************************************************************************)
(* Landover Hills budget assistant: the intent resolver (handleIntent),    *)
(* the HTTP query endpoints it fetches from (app/api/budget/*/route.ts)    *)
(* the query adapter over the budget views, and the chat widget (class    *)
(* BudgetAssistant) with its page.                                         *)
(*                                                                         *)
(* Strings built by template literals are modelled as sequences of string  *)
(* tokens whose concatenation is the JavaScript string.  JavaScript values *)
(* that may be a number, null, undefined or NaN are tagged records.        *)
(***************************************************************************)
EXTENDS Integers, Sequences, FiniteSets, TLC

VARIABLES
    db,         \* the upstream store: units budgeted per (fiscal year, category)
    pc,         \* position of the resolution: idle, fetching, responded, done
    intent,     \* the intent being resolved
    request,    \* the HTTP request handleIntent issued (path and query parameters)
    adapter,    \* what the query adapter did for that request: none, ok, failed
    body,       \* the JSON body of the response handleIntent awaits
    result,     \* the settled promise of handleIntent: fulfilled(value) or rejected
    fetches,    \* every fetch the current resolution has issued, in order
    call,       \* the query adapter function the route handler invoked, with its arguments
    amount,     \* the value handed to USD
    rendered,   \* the string USD returned for it
    resolutions, \* the calls of handleIntent in progress side by side, by caller
    widget      \* the chat widget instance of the page, its DOM and localStorage

vars == <<db, pc, intent, request, adapter, body, result, fetches, call, amount, rendered,
          resolutions, widget>>

----------------------------------------------------------------------------
(* Bounds of the model *)

\* a stored line amount is 1..MaxUnits times AmountStep dollars (0 = no row)
MaxUnits == 2
AmountStep == 700
\* top_n carried by a category_rank intent ranges over 0..MaxTopN, or is absent
MaxTopN == 2

----------------------------------------------------------------------------
(* Data model *)

\* type Year
Years == <<"FY24", "FY25", "FY26">>
YearSet == {Years[i] : i \in DOMAIN Years}

\* categories present in the store, in storage order, each with one line item
StoredCategories == <<"Police Department", "TAXES">>
StoredCategorySet == {StoredCategories[i] : i \in DOMAIN StoredCategories}
StoredLineItem == "Payroll Taxes"

\* category and line-item names an intent may carry
IntentCategories == {"TAXES", "police department", "Parks"}
IntentLineItems == {"Payroll Taxes", "Fuel"}
HelpTexts ==
    {"Ask me about totals, changes, rankings, shares or line items.",
     "What was the FY25 total? Source: none."}

\* String.prototype.toUpperCase on the names of the model
toUpperCase(s) ==
    CASE s \in {"TAXES", "Taxes", "taxes"} -> "TAXES"
      [] s \in {"Police Department", "police department", "POLICE DEPARTMENT"}
            -> "POLICE DEPARTMENT"
      [] s \in {"Parks", "PARKS"} -> "PARKS"
      [] OTHER -> s

\* JavaScript values of type number | null | undefined
Num(n) == [t |-> "number", n |-> n]
Null == [t |-> "null", n |-> 0]
Undefined == [t |-> "undefined", n |-> 0]
NaN == [t |-> "NaN", n |-> 0]

----------------------------------------------------------------------------
(* Currency formatting *)

\* a group of three digits written without its leading zeros
Pad3_bare(k) == ToString(k)

Pad3(k) ==
    IF k < 10 THEN "00" \o ToString(k)
    ELSE IF k < 100 THEN "0" \o ToString(k)
    ELSE ToString(k)

RECURSIVE GroupDigits(_)
GroupDigits(n) ==
    IF n < 1000 THEN ToString(n)
    ELSE GroupDigits(n \div 1000) \o "," \o Pad3(n % 1000)

\* Number.prototype.toLocaleString('en-US') on an integer
toLocaleString(n) ==
    IF n < 0 THEN "-" \o GroupDigits(-n) ELSE GroupDigits(n)

USD(v) ==
    IF v.t = "number" THEN "$" \o toLocaleString(v.n) ELSE "$0"

PARTIAL_NOTE == "Note: FY26 data is partial."

----------------------------------------------------------------------------
(* Query adapter over the budget views (src/lib/budget) *)

Stores == [YearSet \X StoredCategorySet -> 0..MaxUnits]

Amount(d, year, category) ==
    IF <<year, category>> \in DOMAIN d THEN d[<<year, category>>] * AmountStep ELSE 0

RECURSIVE SumTotals(_)
SumTotals(rows) ==
    IF rows = <<>> THEN 0 ELSE Head(rows).total + SumTotals(Tail(rows))

\* rows of v_category_totals(year) before ordering: one per category with data
CategoryRows(d, year) ==
    LET all == [i \in DOMAIN StoredCategories |->
                    [category |-> StoredCategories[i],
                     total |-> Amount(d, year, StoredCategories[i])]]
    IN  SelectSeq(all, LAMBDA r : r.total > 0)

\* ORDER BY total DESC, ties in storage order
OrderByTotalDesc(rows) ==
    LET n == Len(rows)
        Before(j, i) == \/ rows[j].total > rows[i].total
                        \/ rows[j].total = rows[i].total /\ j < i
        Pos(i) == 1 + Cardinality({j \in 1..n : Before(j, i)})
    IN  [p \in 1..n |-> rows[CHOOSE i \in 1..n : Pos(i) = p]]

YearTotal(d, year) == SumTotals(CategoryRows(d, year))

getYearTotals(d) ==
    LET all == [i \in DOMAIN Years |->
                    [fiscal_year |-> Years[i], total |-> YearTotal(d, Years[i])]]
    IN  SelectSeq(all, LAMBDA r : r.total > 0)

getYoY(d) ==
    LET t == getYearTotals(d)
    IN  [i \in DOMAIN t |->
            [fiscal_year |-> t[i].fiscal_year,
             total |-> t[i].total,
             yoy_change |-> IF i = 1 THEN Null
                            ELSE Num(t[i].total - t[i - 1].total)]]

getCategoryRanking(d, year, limit) ==
    LET ranked == OrderByTotalDesc(CategoryRows(d, year))
    IN  SubSeq(ranked, 1, IF limit < Len(ranked) THEN limit ELSE Len(ranked))

\* percentage of the year total, rounded to the nearest whole percent
PctOfYear(total, yearTotal) == (200 * total + yearTotal) \div (2 * yearTotal)

getCategoryShares(d, year) ==
    LET ranked == OrderByTotalDesc(CategoryRows(d, year))
    IN  [i \in DOMAIN ranked |->
            [category |-> ranked[i].category,
             total |-> ranked[i].total,
             pct_of_year |-> PctOfYear(ranked[i].total, YearTotal(d, year))]]

getLineItemTotal(d, year, category, lineItem) ==
    IF lineItem = StoredLineItem THEN Amount(d, year, category) ELSE 0

\* one row: the category's totals in both years and the change between them
getCategoryYoY(d, year1, year2, category) ==
    <<[category |-> category,
       total_from |-> Amount(d, year1, category),
       total_to |-> Amount(d, year2, category),
       yoy_change |-> Amount(d, year2, category) - Amount(d, year1, category)]>>

isPartial(year) == year = "FY26"

usd(n) == "$" \o toLocaleString(n)

\* an invocation of an adapter function; an argument it does not take is blank
NoCall ==
    [fn |-> "", year |-> "", year2 |-> "", category |-> "", lineItem |-> "",
     limit |-> 0]

\* the message of the Error the adapter throws on an upstream failure
UpstreamFailure == "upstream query failed"

----------------------------------------------------------------------------
(* HTTP: URLs, query parameters and JSON bodies *)

\* encodeURIComponent on the names of the model: a space becomes %20
encodeURIComponent(s) ==
    CASE s = "Payroll Taxes" -> "Payroll%20Taxes"
      [] s = "police department" -> "police%20department"
      [] s = "Police Department" -> "Police%20Department"
      [] OTHER -> s

\* the decoding URLSearchParams applies to a parameter value
decodeParam(s) ==
    CASE s = "Payroll%20Taxes" -> "Payroll Taxes"
      [] s = "police%20department" -> "police department"
      [] s = "Police%20Department" -> "Police Department"
      [] OTHER -> s

DefaultLimit == 10

\* Number(s) for the decimal strings a limit parameter carries
Number(s) == CHOOSE n \in 0..(MaxTopN + DefaultLimit + 1) : ToString(n) = s

\* a request: its path and the query parameters its URL carries (has = names present)
NoParams ==
    [has |-> {}, year |-> "", year1 |-> "", year2 |-> "", limit |-> "",
     category |-> "", lineItem |-> ""]
Request(path, params) == [path |-> path, params |-> params]
NoRequest == Request("", NoParams)

\* req.nextUrl.searchParams.get(name) ?? fallback
ParamOr(q, name, fallback) ==
    IF name \in q.has THEN decodeParam(q[name]) ELSE fallback

\* a JSON body: an object with the keys in has, or an array of elems
EmptyObject ==
    [kind |-> "object", status |-> 200, has |-> {}, elems |-> <<>>,
     success |-> FALSE, data |-> <<>>, total |-> 0, partial |-> FALSE,
     formatted |-> "", year |-> "", year1 |-> "", year2 |-> "",
     category |-> "", lineItem |-> "",
     error |-> "", details |-> "", message |-> <<>>]
NoBody == [EmptyObject EXCEPT !.kind = "none"]

\* the catch branch without the status option and the details key
Failure_bare(error) ==
    [EmptyObject EXCEPT !.status = 200, !.has = {"success", "error"},
                        !.success = FALSE, !.error = error]

\* the catch branch shared by every route: HTTP 500 {success:false, error, details}
Failure(error) ==
    [EmptyObject EXCEPT !.status = 500, !.has = {"success", "error", "details"},
                        !.success = FALSE, !.error = error,
                        !.details = UpstreamFailure]

----------------------------------------------------------------------------
(* Route handlers: the body each GET returns; fails = the adapter call throws *)

\* the adapter invocation of each handler, with the defaults of its parameters
CALL_year_totals == [NoCall EXCEPT !.fn = "getYearTotals"]

CALL_yoy == [NoCall EXCEPT !.fn = "getYoY"]

CALL_category(q) ==
    [NoCall EXCEPT !.fn = "getCategoryRanking",
                   !.year = ParamOr(q, "year", "FY25"),
                   !.limit = IF "limit" \in q.has THEN Number(q.limit) ELSE DefaultLimit]

CALL_shares(q) ==
    [NoCall EXCEPT !.fn = "getCategoryShares", !.year = ParamOr(q, "year", "FY25")]

\* the line-item defaults with the year default of the ranking route
CALL_line_item_fy25(q) ==
    [NoCall EXCEPT !.fn = "getLineItemTotal",
                   !.year = ParamOr(q, "year", "FY25"),
                   !.category = ParamOr(q, "category", "ADMINISTRATION"),
                   !.lineItem = ParamOr(q, "lineItem", "Payroll Taxes")]

CALL_line_item(q) ==
    [NoCall EXCEPT !.fn = "getLineItemTotal",
                   !.year = ParamOr(q, "year", "FY24"),
                   !.category = ParamOr(q, "category", "ADMINISTRATION"),
                   !.lineItem = ParamOr(q, "lineItem", "Payroll Taxes")]

\* the handler without its category check: the adapter is always invoked
CALL_category_yoy_unchecked(q) ==
    [NoCall EXCEPT !.fn = "getCategoryYoY",
                   !.year = ParamOr(q, "year1", "FY24"),
                   !.year2 = ParamOr(q, "year2", "FY25"),
                   !.category = ParamOr(q, "category", "")]

\* no invocation when the category is missing or empty
CALL_category_yoy(q) ==
    IF ParamOr(q, "category", "") = "" THEN NoCall
    ELSE [NoCall EXCEPT !.fn = "getCategoryYoY",
                        !.year = ParamOr(q, "year1", "FY24"),
                        !.year2 = ParamOr(q, "year2", "FY25"),
                        !.category = ParamOr(q, "category", "")]

GET_year_totals(d, fails) ==
    IF fails THEN Failure("Failed to fetch year totals")
    ELSE [EmptyObject EXCEPT !.has = {"success", "data", "message"},
                             !.success = TRUE, !.data = getYearTotals(d),
                             !.message = <<"Year totals retrieved successfully">>]

GET_yoy(d, fails) ==
    IF fails THEN Failure("Failed to fetch year-over-year data")
    ELSE [EmptyObject EXCEPT !.has = {"success", "data", "message"},
                             !.success = TRUE, !.data = getYoY(d),
                             !.message = <<"Year-over-year data retrieved successfully">>]

\* the ranking handler that ignores the limit parameter
GET_category_unlimited(q, d, fails) ==
    IF fails THEN Failure("Failed to fetch category rankings")
    ELSE [EmptyObject EXCEPT
            !.has = {"success", "year", "partial", "data", "message"},
            !.success = TRUE, !.year = CALL_category(q).year,
            !.partial = isPartial(CALL_category(q).year),
            !.data = getCategoryRanking(d, CALL_category(q).year, DefaultLimit),
            !.message = <<"Category rankings for ", CALL_category(q).year,
                          " retrieved successfully">>]

GET_category(q, d, fails) ==
    LET year == CALL_category(q).year
        limit == CALL_category(q).limit
    IN  IF fails THEN Failure("Failed to fetch category rankings")
        ELSE [EmptyObject EXCEPT
                !.has = {"success", "year", "partial", "data", "message"},
                !.success = TRUE, !.year = year, !.partial = isPartial(year),
                !.data = getCategoryRanking(d, year, limit),
                !.message = <<"Category rankings for ", year, " retrieved successfully">>]

GET_shares(q, d, fails) ==
    LET year == CALL_shares(q).year
    IN  IF fails THEN Failure("Failed to fetch category shares")
        ELSE [EmptyObject EXCEPT
                !.has = {"success", "year", "partial", "data", "message"},
                !.success = TRUE, !.year = year, !.partial = isPartial(year),
                !.data = getCategoryShares(d, year),
                !.message = <<"Category shares for ", year, " retrieved successfully">>]

\* an absent combination answered as an error instead of a zero total
GET_line_item_404(q, d, fails) ==
    LET c == CALL_line_item(q)
    IN  IF fails \/ getLineItemTotal(d, c.year, c.category, c.lineItem) = 0
        THEN Failure("Failed to fetch line item total")
        ELSE [EmptyObject EXCEPT
                !.has = {"success", "total", "partial"}, !.success = TRUE,
                !.total = getLineItemTotal(d, c.year, c.category, c.lineItem),
                !.partial = isPartial(c.year)]

GET_line_item(q, d, fails) ==
    LET year == CALL_line_item(q).year
        category == CALL_line_item(q).category
        lineItem == CALL_line_item(q).lineItem
        total == getLineItemTotal(d, year, category, lineItem)
    IN  IF fails THEN Failure("Failed to fetch line item total")
        ELSE [EmptyObject EXCEPT
                !.has = {"success", "year", "category", "lineItem", "total",
                         "formatted", "partial", "message"},
                !.success = TRUE, !.year = year, !.category = category,
                !.lineItem = lineItem, !.total = total, !.formatted = usd(total),
                !.partial = isPartial(year),
                !.message = <<"Line item total for ", lineItem, " in ", category,
                              " (", year, ") retrieved successfully">>]

GET_category_yoy(q, d, fails) ==
    LET year1 == ParamOr(q, "year1", "FY24")
        year2 == ParamOr(q, "year2", "FY25")
        category == ParamOr(q, "category", "")
    IN  IF category = ""
        THEN [EmptyObject EXCEPT !.status = 400, !.has = {"success", "error"},
                                 !.success = FALSE,
                                 !.error = "Category parameter is required"]
        ELSE IF fails THEN Failure("Failed to fetch category year-over-year data")
        ELSE [EmptyObject EXCEPT
                !.has = {"success", "year1", "year2", "category", "data", "message"},
                !.success = TRUE, !.year1 = year1, !.year2 = year2,
                !.category = category,
                !.data = getCategoryYoY(d, year1, year2, category),
                !.message = <<"Category YoY change for ", category, " from ", year1,
                              " to ", year2, " retrieved successfully">>]

----------------------------------------------------------------------------
(* Intent resolver: handleIntent *)

\* type Intent, as one record shape; a field a variant does not carry is blank
BlankIntent ==
    [action |-> "", year |-> "", year_from |-> "", year_to |-> "",
     top_n |-> Undefined, category |-> "", line_item |-> "", question |-> ""]

Intents ==
    {[BlankIntent EXCEPT !.action = "year_total", !.year = y] : y \in YearSet}
    \cup {[BlankIntent EXCEPT !.action = "yoy_difference", !.year_from = f, !.year_to = t]
            : f \in YearSet, t \in YearSet}
    \cup {[BlankIntent EXCEPT !.action = "yoy_all"]}
    \cup {[BlankIntent EXCEPT !.action = "category_rank", !.year = y, !.top_n = n]
            : y \in YearSet, n \in {Undefined} \cup {Num(k) : k \in 0..MaxTopN}}
    \cup {[BlankIntent EXCEPT !.action = "category_share", !.year = y, !.category = c]
            : y \in YearSet, c \in IntentCategories}
    \cup {[BlankIntent EXCEPT !.action = "line_item_total", !.year = y,
                              !.category = c, !.line_item = l]
            : y \in YearSet, c \in IntentCategories \cup StoredCategorySet,
              l \in IntentLineItems}
    \cup {[BlankIntent EXCEPT !.action = "help", !.question = h] : h \in HelpTexts}

Pending == [status |-> "pending", value |-> <<>>, error |-> ""]
Fulfilled(v) == [status |-> "fulfilled", value |-> v, error |-> ""]
Rejected(e) == [status |-> "rejected", value |-> <<>>, error |-> e]

\* the characters U+2192 (rightwards arrow) and U+2212 (minus sign) of the source
ARROW == " U+2192 "
MINUS == "U+2212"

\* Array.prototype.find, given the indexes whose element passes the test: the
\* first of them, or 0 when none does
FindFirst(hits) ==
    IF hits = {} THEN 0 ELSE CHOOSE k \in hits : \A j \in hits : k <= j

\* Array.prototype.join on lines that are token sequences
RECURSIVE Join(_, _)
Join(lines, sep) ==
    IF lines = <<>> THEN <<>>
    ELSE IF Len(lines) = 1 THEN lines[1]
    ELSE lines[1] \o <<sep>> \o Join(Tail(lines), sep)

Abs(n) == IF n < 0 THEN -n ELSE n

WithNote(msg, sep, partial) ==
    IF partial THEN msg \o <<sep, PARTIAL_NOTE>> ELSE msg

DefaultTopN == 10

\* intent.top_n || 10 in place of ??: a top_n of 0 also falls back to the default
LimitOf_falsy(i) ==
    IF i.top_n.t \in {"null", "undefined"} \/ i.top_n.n = 0 THEN DefaultTopN
    ELSE i.top_n.n

\* intent.top_n ?? 10
LimitOf(i) == IF i.top_n.t \in {"null", "undefined"} THEN DefaultTopN ELSE i.top_n.n

\* the fetch each case issues before its first await; help issues none
FetchOf(i) ==
    CASE i.action = "year_total" -> Request("/api/budget/year-totals", NoParams)
      [] i.action \in {"yoy_difference", "yoy_all"} -> Request("/api/budget/yoy", NoParams)
      [] i.action = "category_rank" ->
            Request("/api/budget/category",
                    [NoParams EXCEPT !.has = {"year", "limit"},
                                     !.year = encodeURIComponent(i.year),
                                     !.limit = ToString(LimitOf(i))])
      [] i.action = "category_share" ->
            Request("/api/budget/shares",
                    [NoParams EXCEPT !.has = {"year"},
                                     !.year = encodeURIComponent(i.year)])
      [] i.action = "line_item_total" ->
            Request("/api/budget/line-item",
                    [NoParams EXCEPT !.has = {"year", "category", "lineItem"},
                                     !.year = encodeURIComponent(i.year),
                                     !.category = encodeURIComponent(i.category),
                                     !.lineItem = encodeURIComponent(i.line_item)])
      [] OTHER -> NoRequest

\* case 'year_total', from the parsed body on
year_total(i, json) ==
    IF json.kind # "array" THEN Rejected("TypeError: rows.find is not a function")
    ELSE
      LET rows == json.elems
          k == FindFirst({j \in DOMAIN rows : rows[j].fiscal_year = i.year})
          total == IF k = 0 THEN Undefined ELSE Num(rows[k].total)
          msg == <<"Total ", i.year, " budget: ", USD(total), ". ",
                   "Source: ", "v_year_totals", "(", i.year, ")", ".">>
      IN  Fulfilled(WithNote(msg, " ", i.year = "FY26"))

\* case 'yoy_difference', from the parsed body on
yoy_difference(i, json) ==
    IF json.kind # "array" THEN Rejected("TypeError: rows.find is not a function")
    ELSE
      LET rows == json.elems
          to == FindFirst({j \in DOMAIN rows : rows[j].fiscal_year = i.year_to})
          from == FindFirst({j \in DOMAIN rows : rows[j].fiscal_year = i.year_from})
      IN  IF to = 0 \/ from = 0
          THEN Fulfilled(<<"I could not find the requested years.">>)
          ELSE
            LET delta == rows[to].total - rows[from].total
                msg == <<"Change from ", i.year_from, " to ", i.year_to, ": ",
                         USD(Num(delta)), " (", USD(Num(rows[from].total)), ARROW,
                         USD(Num(rows[to].total)), "). ",
                         "Source: ", "v_year_yoy", ".">>
            IN  Fulfilled(WithNote(msg, " ",
                                   i.year_to = "FY26" \/ i.year_from = "FY26"))

\* one line of the yoy_all answer
YoYLine(r) ==
    IF r.yoy_change.t \in {"null", "undefined"}
    THEN <<r.fiscal_year, ": base ", USD(Num(r.total))>>
    ELSE <<r.fiscal_year, ": ", IF r.yoy_change.n >= 0 THEN "+" ELSE MINUS,
           USD(Num(Abs(r.yoy_change.n))), " (total ", USD(Num(r.total)), ")">>

\* case 'yoy_all', from the parsed body on
yoy_all(i, json) ==
    IF json.kind # "array" THEN Rejected("TypeError: rows.map is not a function")
    ELSE
      LET rows == json.elems
          lines == [k \in DOMAIN rows |-> YoYLine(rows[k])]
          msg == <<"Year-over-year changes:", "\n- ">> \o Join(lines, "\n- ")
                 \o <<"\n", "Source: ", "v_year_yoy", ".">>
      IN  Fulfilled(WithNote(msg, "\n",
                             \E k \in DOMAIN rows : rows[k].fiscal_year = "FY26"))

\* json.data, json.total and json.partial of a parsed body
DataOf(json) == IF json.kind = "object" /\ "data" \in json.has THEN json.data ELSE <<>>
HasData(json) == json.kind = "object" /\ "data" \in json.has
TotalOf(json) ==
    IF json.kind = "object" /\ "total" \in json.has THEN Num(json.total) ELSE Undefined
PartialOf(json) == json.kind = "object" /\ "partial" \in json.has /\ json.partial

\* one entry of the category_rank list
RankLine(r, k) == <<ToString(k), ". ", r.category, ": ", USD(Num(r.total))>>

\* case 'category_rank', from the parsed body on
category_rank(i, json) ==
    LET limit == LimitOf(i)
        rows == DataOf(json)
    IN  IF ~HasData(json) \/ Len(rows) = 0
        THEN Fulfilled(<<"No categories found for ", i.year, ".">>)
        ELSE
          LET list == Join([k \in DOMAIN rows |-> RankLine(rows[k], k)], "\n")
              msg == <<"Top ", ToString(limit), " categories in ", i.year, ":\n">>
                     \o list
                     \o <<"\n", "Source: ", "v_category_totals", "(", i.year, ")", ".">>
          IN  Fulfilled(WithNote(msg, "\n", PartialOf(json)))

\* the comparison without toUpperCase: an exact, case-sensitive match
CategoryMatches_exact(r, i) == r.category = i.category

\* the test of rows.find in case 'category_share'
CategoryMatches(r, i) == toUpperCase(r.category) = toUpperCase(i.category)

\* case 'category_share', from the parsed body on
category_share(i, json) ==
    IF ~HasData(json)
    THEN Rejected("TypeError: Cannot read properties of undefined (reading 'find')")
    ELSE
      LET rows == DataOf(json)
          k == FindFirst({j \in DOMAIN rows : CategoryMatches(rows[j], i)})
      IN  IF k = 0
          THEN Fulfilled(<<"No data for ", i.category, " in ", i.year, ".">>)
          ELSE
            LET msg == <<i.category, " in ", i.year, ": ", USD(Num(rows[k].total)),
                         " (", ToString(rows[k].pct_of_year), "% of total). ",
                         "Source: ", "v_category_shares", "(", i.year, ")", ".">>
            IN  Fulfilled(WithNote(msg, " ", i.year = "FY26"))

\* case 'line_item_total', from the parsed body on
line_item_total(i, json) ==
    LET msg == <<i.year, " ", i.category, ARROW, i.line_item, ": ",
                 USD(TotalOf(json)), ". ", "Source: ", "v_line_items", ".">>
    IN  Fulfilled(WithNote(msg, " ", PartialOf(json)))

\* handleIntent once `await res.json()` has produced json
handleIntent(i, json) ==
    CASE i.action = "year_total" -> year_total(i, json)
      [] i.action = "yoy_difference" -> yoy_difference(i, json)
      [] i.action = "yoy_all" -> yoy_all(i, json)
      [] i.action = "category_rank" -> category_rank(i, json)
      [] i.action = "category_share" -> category_share(i, json)
      [] i.action = "line_item_total" -> line_item_total(i, json)
      [] i.action = "help" -> Fulfilled(<<i.question>>)
      [] OTHER -> Fulfilled(<<"Sorry, I could not interpret that request.">>)

----------------------------------------------------------------------------
(* The state machine *)

----------------------------------------------------------------------------
(* The chat widget (class BudgetAssistant): one instance on a page, its    *)
(* DOM, the page's timers and requests in flight, and localStorage.        *)

\* bounds: entries in a conversation, pending enable timers, page loads
MaxMessages == 4
MaxTimers == 2
MaxPages == 2

\* a JavaScript string, or undefined
Str(s) == [t |-> "string", s |-> s]
NoStr == [t |-> "undefined", s |-> ""]

\* what the user may type into the input
TypedTexts == {"", "   ", "road repairs", " police budget "}
\* String.prototype.trim
trim(s) ==
    CASE s = "   " -> ""
      [] s = " police budget " -> "police budget"
      [] OTHER -> s

\* what becomes of a POST /ask: fetch rejects; a non-OK status; an OK response
\* whose body is an object with an answer, an object without one, the JSON
\* value null, or not JSON at all
AskOutcomes == {"unreachable", "http_500", "answer", "no_answer", "json_null", "not_json"}

\* error.message in the catch branch of sendMessage
ErrorMessage(outcome) ==
    CASE outcome = "unreachable" -> "Failed to fetch"
      [] outcome = "http_500" -> "HTTP error! status: 500"
      [] outcome = "json_null" -> "Cannot read properties of null (reading 'answer')"
      [] OTHER -> "Unexpected token < in JSON at position 0"

\* data.answer of a parsed response body
AnswerOf(outcome) == IF outcome = "answer" THEN Str("Road repairs: $700") ELSE NoStr

\* one entry of this.conversation
Entry(sender, content, data) ==
    [sender |-> sender, content |-> content, data |-> data, timestamp |-> "iso"]

\* JSON.stringify(conversation): a property whose value is undefined is left out
stringify(conversation) ==
    [k \in DOMAIN conversation |->
        [has |-> IF conversation[k].content.t = "undefined"
                 THEN {"sender", "data", "timestamp"}
                 ELSE {"sender", "content", "data", "timestamp"},
         sender |-> conversation[k].sender,
         content |-> conversation[k].content.s,
         data |-> conversation[k].data,
         timestamp |-> conversation[k].timestamp]]

\* JSON.parse(saved): reading a property that is left out gives undefined
parse(saved) ==
    [k \in DOMAIN saved |->
        [sender |-> saved[k].sender,
         content |-> IF "content" \in saved[k].has THEN Str(saved[k].content) ELSE NoStr,
         data |-> saved[k].data,
         timestamp |-> saved[k].timestamp]]

\* localStorage of the page's origin: whether its calls work, the item under
\* 'budget-assistant-conversation', and whether it has been read or written
EmptyStorage(works) == [works |-> works, present |-> FALSE, value |-> <<>>, reads |-> 0, writes |-> 0]

\* updateWidgetState(): the panel, the full chat button and the minimized button
updateWidgetState(w) ==
    IF w.isOpen
    THEN [w EXCEPT !.panelOpen = TRUE, !.toggleShown = FALSE, !.minimizedShown = FALSE]
    ELSE IF w.isMinimized
    THEN [w EXCEPT !.panelOpen = FALSE, !.toggleShown = FALSE, !.minimizedShown = TRUE]
    ELSE [w EXCEPT !.panelOpen = FALSE, !.toggleShown = TRUE, !.minimizedShown = FALSE]

toggle(w) == updateWidgetState([w EXCEPT !.isOpen = ~w.isOpen, !.isMinimized = FALSE])
close(w) == updateWidgetState([w EXCEPT !.isOpen = FALSE, !.isMinimized = FALSE])

\* minimize() that leaves the panel flagged open
minimize_open(w) == updateWidgetState([w EXCEPT !.isMinimized = TRUE])

minimize(w) == updateWidgetState([w EXCEPT !.isOpen = FALSE, !.isMinimized = TRUE])
expand(w) == updateWidgetState([w EXCEPT !.isOpen = TRUE, !.isMinimized = FALSE])

\* saving that forgets the entry pushed last
saveConversationToStorage_stale(w) ==
    IF w.persistentMode /\ w.localStorage.works
    THEN [w EXCEPT !.localStorage.present = TRUE,
                   !.localStorage.writes = 1,
                   !.localStorage.value =
                        IF w.conversation = <<>> THEN <<>>
                        ELSE stringify(SubSeq(w.conversation, 1, Len(w.conversation) - 1))]
    ELSE w

\* setItem throws when storage does not work; the catch only warns
saveConversationToStorage(w) ==
    IF w.persistentMode /\ w.localStorage.works
    THEN [w EXCEPT !.localStorage.present = TRUE,
                   !.localStorage.writes = 1,
                   !.localStorage.value = stringify(w.conversation)]
    ELSE w

\* getItem gives null when there is no item, and throws when storage does not work
loadConversationFromStorage(w) ==
    IF w.persistentMode /\ w.localStorage.works
    THEN IF w.localStorage.present /\ w.localStorage.value # <<>>
         THEN [w EXCEPT !.conversation = parse(w.localStorage.value),
                        !.welcome = FALSE, !.localStorage.reads = 1]
         ELSE IF w.localStorage.present
         THEN [w EXCEPT !.conversation = parse(w.localStorage.value),
                        !.localStorage.reads = 1]
         ELSE [w EXCEPT !.localStorage.reads = 1]
    ELSE w

\* new BudgetAssistant({persistentMode}) on a page load: constructor, createWidget,
\* attachEventListeners
BudgetAssistant(persistentMode, storage, pageNo) ==
    LET created ==
          updateWidgetState(
            [isOpen |-> FALSE, isLoading |-> FALSE, conversation |-> <<>>,
             isMinimized |-> FALSE, persistentMode |-> persistentMode,
             panelOpen |-> FALSE, toggleShown |-> FALSE, minimizedShown |-> FALSE,
             welcome |-> TRUE, loading |-> 0, notification |-> FALSE,
             inputValue |-> "", inputDisabled |-> TRUE, sendDisabled |-> TRUE,
             timers |-> 0, requests |-> <<>>, started |-> 0,
             page |-> pageNo, localStorage |-> storage])
    IN  IF persistentMode
        THEN saveConversationToStorage(loadConversationFromStorage(created))
        ELSE created

\* addMessage(sender, content, data)
addMessage(w, sender, content, data) ==
    LET pushed == [w EXCEPT !.conversation = Append(@, Entry(sender, content, data))]
        saved == saveConversationToStorage(pushed)
    IN  [saved EXCEPT !.welcome = FALSE,
                      !.notification = @ \/ saved.isMinimized]

showLoading(w) ==
    [w EXCEPT !.isLoading = TRUE, !.loading = @ + 1,
              !.inputDisabled = TRUE, !.sendDisabled = TRUE]

\* removes the element found by getElementById('budget-assistant-loading')
hideLoading(w) ==
    [w EXCEPT !.isLoading = FALSE, !.loading = IF @ > 0 THEN @ - 1 ELSE 0,
              !.inputDisabled = FALSE, !.sendDisabled = FALSE]

\* sendMessage() without the return on an empty message
sendMessage_blank(w) ==
    [showLoading([addMessage(w, "user", Str(trim(w.inputValue)), "null")
                    EXCEPT !.inputValue = ""])
        EXCEPT !.requests = Append(@, [stage |-> "fetch", outcome |-> ""]),
               !.started = @ + 1]

\* sendMessage() up to its first await
sendMessage(w) ==
    LET message == trim(w.inputValue)
    IN  IF message = "" THEN w
        ELSE LET added == addMessage(w, "user", Str(message), "null")
             IN  [showLoading([added EXCEPT !.inputValue = ""])
                    EXCEPT !.requests = Append(@, [stage |-> "fetch", outcome |-> ""]),
                           !.started = @ + 1]

\* a catch branch that leaves the loading state as it is
catch_stuck(w, message) ==
    addMessage(w, "assistant", Str("Sorry, I encountered an error: " \o message), "null")

\* the catch branch of sendMessage
catch(w, message) ==
    addMessage(hideLoading(w), "assistant",
               Str("Sorry, I encountered an error: " \o message), "null")

\* the listeners that call sendMessage whatever isLoading is
onSend_unguarded(w) == sendMessage(w)

\* the keypress (Enter) and click listeners of the input and the send button
onSend(w) == IF ~w.isLoading THEN sendMessage(w) ELSE w

\* the callback of setTimeout(..., 100) set by a click on either chat button
onEnableTimer(w) == [w EXCEPT !.inputDisabled = FALSE, !.sendDisabled = FALSE]

\* sendMessage() from the settled fetch to its next await or its end
afterFetch(w, k, outcome) ==
    LET rest == [w EXCEPT !.requests = SubSeq(@, 1, k - 1) \o SubSeq(@, k + 1, Len(@))]
    IN  IF outcome \in {"unreachable", "http_500"}
        THEN catch(rest, ErrorMessage(outcome))
        ELSE [w EXCEPT !.requests[k] = [stage |-> "json", outcome |-> outcome]]

\* sendMessage() from the settled response.json() to its end
afterJson(w, k) ==
    LET outcome == w.requests[k].outcome
        rest == [w EXCEPT !.requests = SubSeq(@, 1, k - 1) \o SubSeq(@, k + 1, Len(@))]
    IN  CASE outcome = "not_json" -> catch(rest, ErrorMessage(outcome))
          [] outcome = "json_null" -> catch(hideLoading(rest), ErrorMessage(outcome))
          [] OTHER -> addMessage(hideLoading(rest), "assistant", AnswerOf(outcome), outcome)

FreshWidget == BudgetAssistant(TRUE, EmptyStorage(TRUE), 1)

\* the callers whose resolutions may be in progress at the same time
Callers == {"first", "second"}
\* the locals of one handleIntent call: where it stands, its intent, its
\* request, the response it was handed and its settled promise
NotCalled ==
    [pc |-> "idle", intent |-> BlankIntent, request |-> NoRequest, body |-> NoBody,
     result |-> Pending]

Init ==
    /\ db \in Stores
    /\ pc = "idle"
    /\ intent = BlankIntent
    /\ request = NoRequest
    /\ adapter = "none"
    /\ body = NoBody
    /\ result = Pending
    /\ fetches = <<>>
    /\ call = NoCall
    /\ amount = Undefined
    /\ rendered = ""
    /\ resolutions = [c \in Callers |-> NotCalled]
    /\ widget = FreshWidget

\* every case fetches, help included
Issued_always(i) == <<FetchOf(i)>>

\* a case that fetches does so twice: the request is retried
Issued_retry(i) == IF FetchOf(i) = NoRequest THEN <<>> ELSE <<FetchOf(i), FetchOf(i)>>

\* the fetches one call of handleIntent issues: one per query case, none for help
Issued(i) == IF FetchOf(i) = NoRequest THEN <<>> ELSE <<FetchOf(i)>>

\* handleIntent(i) is called and runs to its first await; help returns at once
Ask(i) ==
    /\ pc = "idle"
    /\ intent' = i
    /\ fetches' = fetches \o Issued(i)
    /\ IF i.action = "help"
       THEN /\ pc' = "done"
            /\ request' = NoRequest
            /\ result' = handleIntent(i, NoBody)
       ELSE /\ pc' = "fetching"
            /\ request' = FetchOf(i)
            /\ result' = Pending
    /\ UNCHANGED <<db, adapter, body, call, amount, rendered, resolutions, widget>>

\* the route handler of the requested path answers; the adapter call may throw.
\* The fetches of handleIntent are answered by the handlers of app/api/budget:
\* its category, shares and line-item cases read the data, partial and total
\* keys those handlers put in their envelope.
\* a handler that clears the rows it has read
Respond_clearing(path, invocation, okBody, failureBody) ==
    /\ pc = "fetching"
    /\ request.path = path
    /\ call' = invocation
    /\ \E fails \in BOOLEAN :
          /\ adapter' = IF fails THEN "failed" ELSE "ok"
          /\ body' = IF fails THEN failureBody ELSE okBody
    /\ pc' = "responded"
    /\ db' = [k \in DOMAIN db |-> 0]
    /\ UNCHANGED <<intent, request, result, fetches, amount, rendered, resolutions, widget>>

Respond(path, invocation, okBody, failureBody) ==
    /\ pc = "fetching"
    /\ request.path = path
    /\ call' = invocation
    /\ \E fails \in BOOLEAN :
          /\ adapter' = IF fails THEN "failed" ELSE "ok"
          /\ body' = IF fails THEN failureBody ELSE okBody
    /\ pc' = "responded"
    /\ UNCHANGED <<db, intent, request, result, fetches, amount, rendered, resolutions, widget>>

YearTotalsRoute ==
    Respond("/api/budget/year-totals", CALL_year_totals,
            GET_year_totals(db, FALSE), GET_year_totals(db, TRUE))
YoYRoute ==
    Respond("/api/budget/yoy", CALL_yoy,
            GET_yoy(db, FALSE), GET_yoy(db, TRUE))
CategoryRoute ==
    Respond("/api/budget/category", CALL_category(request.params),
            GET_category(request.params, db, FALSE), GET_category(request.params, db, TRUE))
SharesRoute ==
    Respond("/api/budget/shares", CALL_shares(request.params),
            GET_shares(request.params, db, FALSE), GET_shares(request.params, db, TRUE))
LineItemRoute ==
    Respond("/api/budget/line-item", CALL_line_item(request.params),
            GET_line_item(request.params, db, FALSE), GET_line_item(request.params, db, TRUE))

\* the request itself fails: fetch rejects and handleIntent rejects with it
FetchFails ==
    /\ pc = "fetching"
    /\ intent # BlankIntent
    /\ pc' = "done"
    /\ result' = Rejected("TypeError: fetch failed")
    /\ UNCHANGED <<db, intent, request, adapter, body, fetches, call, amount, rendered, resolutions, widget>>

\* the response arrives: handleIntent resumes and runs to its return or throw
Resume ==
    /\ pc = "responded"
    /\ intent # BlankIntent
    /\ pc' = "done"
    /\ result' = handleIntent(intent, body)
    /\ UNCHANGED <<db, intent, request, adapter, body, fetches, call, amount, rendered, resolutions, widget>>

\* the caller takes the answer; the next resolution starts from scratch
NextQuestion ==
    /\ pc = "done"
    /\ pc' = "idle"
    /\ intent' = BlankIntent
    /\ request' = NoRequest
    /\ adapter' = "none"
    /\ body' = NoBody
    /\ result' = Pending
    /\ fetches' = <<>>
    /\ call' = NoCall
    /\ UNCHANGED <<db, amount, rendered, resolutions, widget>>

\* the category-YoY handler answers: 400 without touching the adapter when the
\* category is missing, else like every other route
CategoryYoYRoute ==
    /\ pc = "fetching"
    /\ request.path = "/api/budget/category-yoy"
    /\ call' = CALL_category_yoy(request.params)
    /\ \E fails \in BOOLEAN :
          /\ adapter' = IF call' = NoCall THEN "none"
                        ELSE IF fails THEN "failed" ELSE "ok"
          /\ body' = GET_category_yoy(request.params, db, fails)
    /\ pc' = "responded"
    /\ UNCHANGED <<db, intent, request, result, fetches, amount, rendered, resolutions, widget>>

\* a parameter value a client may leave out
Absent == "<absent>"
Opt(values) == values \cup {Absent}
WithParam(q, name, v) ==
    IF v = Absent THEN q
    ELSE [q EXCEPT !.has = @ \cup {name}, ![name] = encodeURIComponent(v)]

\* the GET requests a client sends straight to the endpoints
ClientRequests ==
    {Request("/api/budget/year-totals", NoParams), Request("/api/budget/yoy", NoParams)}
    \cup {Request("/api/budget/category",
                  WithParam(WithParam(NoParams, "year", y), "limit", l))
            : y \in Opt(YearSet), l \in Opt({ToString(k) : k \in 0..MaxTopN})}
    \cup {Request("/api/budget/shares", WithParam(NoParams, "year", y))
            : y \in Opt(YearSet)}
    \cup {Request("/api/budget/line-item",
                  WithParam(WithParam(WithParam(NoParams, "year", y), "category", c),
                            "lineItem", l))
            : y \in Opt(YearSet), c \in Opt({"TAXES"}),
              l \in Opt({"Payroll Taxes", "Fuel"})}
    \cup {Request("/api/budget/category-yoy",
                  WithParam(WithParam(WithParam(NoParams, "year1", y1), "year2", y2),
                            "category", c))
            : y1 \in Opt(YearSet), y2 \in Opt(YearSet), c \in Opt({"", "TAXES"})}

\* a client sends a GET request to an endpoint
Get(r) ==
    /\ pc = "idle"
    /\ request' = r
    /\ pc' = "fetching"
    /\ UNCHANGED <<db, intent, adapter, body, result, fetches, call, amount, rendered, resolutions, widget>>

\* the client has its response; the next request starts from scratch
Receive ==
    /\ pc = "responded"
    /\ intent = BlankIntent
    /\ pc' = "idle"
    /\ request' = NoRequest
    /\ adapter' = "none"
    /\ body' = NoBody
    /\ call' = NoCall
    /\ UNCHANGED <<db, intent, result, fetches, amount, rendered, resolutions, widget>>

Next ==
    \/ \E i \in Intents : Ask(i)
    \/ YearTotalsRoute
    \/ YoYRoute
    \/ CategoryRoute
    \/ SharesRoute
    \/ LineItemRoute
    \/ FetchFails
    \/ Resume
    \/ NextQuestion

Spec == Init /\ [][Next]_vars

\* the endpoints on their own, requested directly by clients
NextApi ==
    \/ \E r \in ClientRequests : Get(r)
    \/ YearTotalsRoute
    \/ YoYRoute
    \/ CategoryRoute
    \/ SharesRoute
    \/ LineItemRoute
    \/ CategoryYoYRoute
    \/ Receive

SpecApi == Init /\ [][NextApi]_vars

\* ---- several resolutions in progress at once ----

\* the route handler a request is dispatched to
GET(r, d, fails) ==
    CASE r.path = "/api/budget/year-totals" -> GET_year_totals(d, fails)
      [] r.path = "/api/budget/yoy" -> GET_yoy(d, fails)
      [] r.path = "/api/budget/category" -> GET_category(r.params, d, fails)
      [] r.path = "/api/budget/shares" -> GET_shares(r.params, d, fails)
      [] r.path = "/api/budget/line-item" -> GET_line_item(r.params, d, fails)
      [] r.path = "/api/budget/category-yoy" -> GET_category_yoy(r.params, d, fails)

\* stores that differ in their FY26 TAXES amount only
ConcStores ==
    {d \in Stores : \A y \in YearSet : \A c \in StoredCategorySet :
                        (y # "FY26" \/ c # "TAXES") => d[<<y, c>>] = 1}
\* the intents the concurrent callers choose from
ConcIntents ==
    {i \in Intents : /\ i.year \in {"", "FY26"}
                     /\ i.year_from \in {"", "FY25"}
                     /\ i.year_to \in {"", "FY26"}
                     /\ i.category \in {"", "TAXES", "Parks"}}

InitConc ==
    /\ db \in ConcStores
    /\ pc = "idle"
    /\ intent = BlankIntent
    /\ request = NoRequest
    /\ adapter = "none"
    /\ body = NoBody
    /\ result = Pending
    /\ fetches = <<>>
    /\ call = NoCall
    /\ amount = Undefined
    /\ rendered = ""
    /\ resolutions = [c \in Callers |-> NotCalled]
    /\ widget = FreshWidget

\* a caller invokes handleIntent(intent): help settles at once, every other
\* action suspends on its fetch
Invoke(c, i) ==
    /\ resolutions[c].pc = "idle"
    /\ resolutions' = [resolutions EXCEPT ![c] =
          IF i.action = "help"
          THEN [NotCalled EXCEPT !.pc = "done", !.intent = i,
                                 !.result = handleIntent(i, NoBody)]
          ELSE [NotCalled EXCEPT !.pc = "fetching", !.intent = i,
                                 !.request = FetchOf(i)]]
    /\ UNCHANGED <<db, pc, intent, request, adapter, body, result, fetches, call,
                   amount, rendered, widget>>

\* the server answers the request of one suspended call; body is the response
\* it sent last, to whichever caller
Serve(c) ==
    /\ resolutions[c].pc = "fetching"
    /\ \E fails \in BOOLEAN :
          /\ body' = GET(resolutions[c].request, db, fails)
          /\ resolutions' = [resolutions EXCEPT ![c].pc = "responded",
                                                ![c].body = body']
    /\ UNCHANGED <<db, pc, intent, request, adapter, result, fetches, call,
                   amount, rendered, widget>>

\* the fetch of one suspended call rejects
Unreachable(c) ==
    /\ resolutions[c].pc = "fetching"
    /\ resolutions' = [resolutions EXCEPT ![c].pc = "done",
                          ![c].result = Rejected("TypeError: fetch failed")]
    /\ UNCHANGED <<db, pc, intent, request, adapter, body, result, fetches, call,
                   amount, rendered, widget>>

\* the latest response of the server, whoever asked for it
Received_latest(c) == body

\* res.json() of the call's own response
Received(c) == resolutions[c].body

\* a suspended call continues after its await and settles
Continue(c) ==
    /\ resolutions[c].pc = "responded"
    /\ resolutions' = [resolutions EXCEPT ![c].pc = "done",
                          ![c].result = handleIntent(resolutions[c].intent, Received(c))]
    /\ UNCHANGED <<db, pc, intent, request, adapter, body, result, fetches, call,
                   amount, rendered, widget>>

\* the caller has its answer and may ask again
Return(c) ==
    /\ resolutions[c].pc = "done"
    /\ resolutions' = [resolutions EXCEPT ![c] = NotCalled]
    /\ UNCHANGED <<db, pc, intent, request, adapter, body, result, fetches, call,
                   amount, rendered, widget>>

NextConc ==
    \E c \in Callers :
        \/ \E i \in ConcIntents : Invoke(c, i)
        \/ Serve(c)
        \/ Unreachable(c)
        \/ Continue(c)
        \/ Return(c)

SpecConc == InitConc /\ [][NextConc]_vars

\* ---- the chat widget on its page ----

InitWidget ==
    /\ db = [k \in YearSet \X StoredCategorySet |-> 0]
    /\ pc = "idle"
    /\ intent = BlankIntent
    /\ request = NoRequest
    /\ adapter = "none"
    /\ body = NoBody
    /\ result = Pending
    /\ fetches = <<>>
    /\ call = NoCall
    /\ amount = Undefined
    /\ rendered = ""
    /\ resolutions = [c \in Callers |-> NotCalled]
    /\ \E persistentMode \in BOOLEAN, works \in BOOLEAN :
          widget = BudgetAssistant(persistentMode, EmptyStorage(works), 1)

Rest == <<db, pc, intent, request, adapter, body, result, fetches, call, amount,
          rendered, resolutions>>

\* a click on the full chat button: toggle(), and the timer that enables the input
ClickToggle ==
    /\ widget.toggleShown
    /\ widget.timers < MaxTimers
    /\ widget' = [toggle(widget) EXCEPT !.timers = @ + 1]
    /\ UNCHANGED Rest

\* a click on the close button of the panel header
ClickClose ==
    /\ widget.panelOpen
    /\ widget' = close(widget)
    /\ UNCHANGED Rest

\* a click on the minimize button of the panel header
ClickMinimize ==
    /\ widget.panelOpen
    /\ widget' = minimize(widget)
    /\ UNCHANGED Rest

\* a click on the minimized button: expand(), and the timer that enables the input
ClickMinimizeToggle ==
    /\ widget.minimizedShown
    /\ widget.timers < MaxTimers
    /\ widget' = [expand(widget) EXCEPT !.timers = @ + 1]
    /\ UNCHANGED Rest

\* a timer set by a click fires
EnableTimer ==
    /\ widget.timers > 0
    /\ widget' = [onEnableTimer(widget) EXCEPT !.timers = @ - 1]
    /\ UNCHANGED Rest

\* the user types into the enabled input of the open panel
Type(text) ==
    /\ widget.panelOpen /\ ~widget.inputDisabled
    /\ widget.inputValue # text
    /\ widget' = [widget EXCEPT !.inputValue = text]
    /\ UNCHANGED Rest

\* Enter is pressed in the enabled input
PressEnter ==
    /\ widget.panelOpen /\ ~widget.inputDisabled
    /\ Len(widget.conversation) + 2 <= MaxMessages
    /\ widget' = onSend(widget)
    /\ UNCHANGED Rest

\* a click on the enabled send button
ClickSend ==
    /\ widget.panelOpen /\ ~widget.sendDisabled
    /\ Len(widget.conversation) + 2 <= MaxMessages
    /\ widget' = onSend(widget)
    /\ UNCHANGED Rest

\* the fetch of a request in flight settles
FetchSettles(k, outcome) ==
    /\ k \in DOMAIN widget.requests
    /\ widget.requests[k].stage = "fetch"
    /\ widget' = afterFetch(widget, k, outcome)
    /\ UNCHANGED Rest

\* response.json() of a request in flight settles
JsonSettles(k) ==
    /\ k \in DOMAIN widget.requests
    /\ widget.requests[k].stage = "json"
    /\ widget' = afterJson(widget, k)
    /\ UNCHANGED Rest

\* the timer of showNotification hides the dots
NotificationTimeout ==
    /\ widget.notification
    /\ widget' = [widget EXCEPT !.notification = FALSE]
    /\ UNCHANGED Rest

\* the user navigates: the page, its timers and its requests go, localStorage
\* stays, and the next page constructs a new instance with the same options
Navigate ==
    /\ widget.page < MaxPages
    /\ widget' = BudgetAssistant(widget.persistentMode,
                                 widget.localStorage,
                                 widget.page + 1)
    /\ UNCHANGED Rest

\* the network settles an await of a request in flight
RequestSettles ==
    \/ \E k \in 1..MaxMessages : \E outcome \in AskOutcomes : FetchSettles(k, outcome)
    \/ \E k \in 1..MaxMessages : JsonSettles(k)

NextWidget ==
    \/ ClickToggle
    \/ ClickClose
    \/ ClickMinimize
    \/ ClickMinimizeToggle
    \/ \E text \in TypedTexts : Type(text)
    \/ PressEnter
    \/ ClickSend
    \/ NotificationTimeout
    \/ Navigate
    \/ EnableTimer
    \/ RequestSettles

SpecWidget == InitWidget /\ [][NextWidget]_vars

\* one widget instance on one page; a request in flight is settled by the
\* network sooner or later
NextSession ==
    \/ ClickToggle
    \/ ClickClose
    \/ ClickMinimize
    \/ ClickMinimizeToggle
    \/ \E text \in TypedTexts : Type(text)
    \/ PressEnter
    \/ ClickSend
    \/ NotificationTimeout
    \/ EnableTimer
    \/ RequestSettles

SpecSession == InitWidget /\ [][NextSession]_vars /\ WF_vars(RequestSettles)

\* ---- USD on its own: every kind of value a caller can hand to it ----

\* amounts are mantissa * 10^exponent, plus one, of either sign
MaxMantissa == 9
MaxExponent == 6
UsdNumbers ==
    {s * (m * (10 ^ e) + o) :
        s \in {-1, 1}, m \in 0..MaxMantissa, e \in 0..MaxExponent, o \in {0, 1}}
    \cup {5391635, 6894068, 2721944}
UsdInputs == {Num(n) : n \in UsdNumbers} \cup {Null, Undefined, NaN}

InitUSD ==
    /\ db = [k \in YearSet \X StoredCategorySet |-> 0]
    /\ pc = "idle"
    /\ intent = BlankIntent
    /\ request = NoRequest
    /\ adapter = "none"
    /\ body = NoBody
    /\ result = Pending
    /\ fetches = <<>>
    /\ call = NoCall
    /\ amount \in UsdInputs
    /\ rendered = ""
    /\ resolutions = [c \in Callers |-> NotCalled]
    /\ widget = FreshWidget

\* USD(n) is evaluated for the amount at hand
Format ==
    /\ rendered = ""
    /\ rendered' = USD(amount)
    /\ UNCHANGED <<db, pc, intent, request, adapter, body, result, fetches, call,
                   amount, resolutions, widget>>

\* the next amount to format
NextAmount ==
    /\ rendered # ""
    /\ amount' \in UsdInputs
    /\ rendered' = ""
    /\ UNCHANGED <<db, pc, intent, request, adapter, body, result, fetches, call,
                   resolutions, widget>>

NextUSD == Format \/ NextAmount

SpecUSD == InitUSD /\ [][NextUSD]_vars

----------------------------------------------------------------------------
(* Vocabulary of the properties *)

QueryActions ==
    {"year_total", "yoy_difference", "yoy_all", "category_rank", "category_share",
     "line_item_total"}
ViewNames ==
    {"v_year_totals", "v_year_yoy", "v_category_totals", "v_category_shares",
     "v_line_items"}

\* handleIntent has settled for the current intent
Settled == pc = "done"
Answered == Settled /\ result.status = "fulfilled"
\* the query of the resolution failed: failure envelope, or the request itself failed
QueryFailed == Settled /\ intent.action \in QueryActions /\ adapter \in {"failed", "none"}
\* the endpoint answered with its success envelope
QuerySucceeded == Settled /\ adapter = "ok"

Cites(v) == \E k \in 1..(Len(v) - 1) : v[k] = "Source: " /\ v[k + 1] \in ViewNames
HasNote(v) == \E k \in DOMAIN v : v[k] = PARTIAL_NOTE

\* every rendering of a dollar amount the store can give rise to
MaxTotal == Len(StoredCategories) * MaxUnits * AmountStep
UsdTokens == {"$" \o toLocaleString(n) : n \in (-MaxTotal)..MaxTotal}

\* the amounts the view layer returned for the current request
ReturnedAmounts ==
    IF adapter # "ok" THEN {}
    ELSE {body.data[k].total : k \in DOMAIN body.data}
         \cup (IF request.path = "/api/budget/yoy"
               THEN {body.data[k].yoy_change.n :
                        k \in {j \in DOMAIN body.data : body.data[j].yoy_change.t = "number"}}
               ELSE {})
         \cup (IF "total" \in body.has THEN {body.total} ELSE {})

\* names that are equal up to letter case
NameClasses ==
    {{"TAXES", "Taxes", "taxes"},
     {"Police Department", "police department", "POLICE DEPARTMENT"},
     {"Parks", "PARKS"}}
SameNameIgnoringCase(a, b) == a = b \/ \E c \in NameClasses : a \in c /\ b \in c

----------------------------------------------------------------------------
(* Properties of the intent resolver *)

\* C1: no partial recovery: when the query of a resolution fails (failure
\* envelope / HTTP 500, or the request fails), handleIntent yields a failed
\* answer, never a normal-looking answer string.
C1_FailedQueryFailedAnswer == QueryFailed => result.status = "rejected"

\* C2: every dollar amount that appears in the answer is an amount the view
\* layer returned for that request.
C2_AmountsFromViews ==
    Answered /\ intent.action \in QueryActions =>
        \A k \in DOMAIN result.value :
            result.value[k] \in UsdTokens =>
                \E a \in ReturnedAmounts : result.value[k] = "$" \o toLocaleString(a)

\* C3: every answer of a query intent cites its data source by naming the view,
\* whatever the query outcome (not-found, no-data and empty results included).
C3_EveryAnswerCitesView ==
    Answered /\ intent.action \in QueryActions => Cites(result.value)

\* C4: the partial note depends on the fiscal year(s) of the intent alone: it is
\* appended exactly when a year the intent carries is FY26, whatever the query
\* returned.
C4_NoteIffIntentYearPartial ==
    Answered /\ intent.action \in QueryActions \ {"yoy_all"} =>
        (HasNote(result.value)
            <=> "FY26" \in {intent.year, intent.year_from, intent.year_to})

\* the rows of a success envelope whose fiscal year is y
RowsOfYear(y) == {k \in DOMAIN body.data : body.data[k].fiscal_year = y}

\* C5: yoy_difference: if the yoy series lacks a row for year_from or year_to the
\* answer is the 'could not find the requested years' message; otherwise the
\* reported delta is total(year_to) - total(year_from) and the answer shows
\* total(year_from) -> total(year_to).
C5_YoYDifference ==
    QuerySucceeded /\ intent.action = "yoy_difference" =>
        LET rows == body.data
            from == RowsOfYear(intent.year_from)
            to == RowsOfYear(intent.year_to)
            v == result.value
        IN  IF from = {} \/ to = {}
            THEN result = Fulfilled(<<"I could not find the requested years.">>)
            ELSE \E f \in from, t \in to :
                    /\ Answered
                    /\ Len(v) >= 10
                    /\ v[6] = "$" \o toLocaleString(rows[t].total - rows[f].total)
                    /\ v[8] = "$" \o toLocaleString(rows[f].total)
                    /\ v[9] = ARROW
                    /\ v[10] = "$" \o toLocaleString(rows[t].total)

\* C6: year_total: the answer is 'Total <year> budget: <usd>. Source: <view>.'
\* with <usd> the total of the year-totals row of the intent's year, followed by
\* the partial note exactly when that year is FY26.
C6_YearTotalForm ==
    QuerySucceeded /\ intent.action = "year_total" =>
        \A k \in RowsOfYear(intent.year) :
            result = Fulfilled(
                <<"Total ", intent.year, " budget: ",
                  "$" \o toLocaleString(body.data[k].total), ". ",
                  "Source: ", "v_year_totals", "(", intent.year, ")", ".">>
                \o (IF intent.year = "FY26" THEN <<" ", PARTIAL_NOTE>> ELSE <<>>))

\* C7: yoy_all: one line per row of the yoy series, in series order; the base row
\* (yoy_change null) reads 'base <total>', every other row a signed delta and its
\* total; the partial note is appended exactly when the series has an FY26 row.
C7_YoYAllLines ==
    QuerySucceeded /\ intent.action = "yoy_all" =>
        LET rows == body.data
            v == result.value
            At(p, tok) == p \in DOMAIN v /\ v[p] = tok
            LineAt(k, p) ==
                /\ At(p, rows[k].fiscal_year)
                /\ IF rows[k].yoy_change.t = "null"
                   THEN /\ At(p + 1, ": base ")
                        /\ At(p + 2, "$" \o toLocaleString(rows[k].total))
                   ELSE /\ At(p + 1, ": ")
                        /\ At(p + 2, IF rows[k].yoy_change.n >= 0 THEN "+" ELSE MINUS)
                        /\ At(p + 3, "$" \o toLocaleString(Abs(rows[k].yoy_change.n)))
                        /\ At(p + 5, "$" \o toLocaleString(rows[k].total))
        IN  /\ Answered
            /\ \A k \in DOMAIN rows : \E p \in DOMAIN v : LineAt(k, p)
            /\ \A k \in DOMAIN rows : \A j \in DOMAIN rows :
                  k < j => \E p \in DOMAIN v : \E q \in DOMAIN v :
                              p < q /\ LineAt(k, p) /\ LineAt(j, q)
            /\ Cardinality({p \in DOMAIN v : v[p] \in YearSet}) = Len(rows)
            /\ HasNote(v) <=> \E k \in DOMAIN rows : rows[k].fiscal_year = "FY26"

\* C8: category_rank: the ranking is requested with limit top_n, or 10 when top_n
\* is absent; a non-empty result is rendered as the numbered list 'i. category:
\* usd', i = 1..n, one entry per returned row in the order returned, at most
\* limit entries; an empty result yields the 'No categories found' message.
C8_CategoryRank ==
    intent.action = "category_rank" =>
        LET limit == IF intent.top_n.t = "number" THEN intent.top_n.n ELSE 10
            rows == body.data
            n == Len(rows)
            v == result.value
        IN  /\ pc # "idle" =>
                /\ request.path = "/api/budget/category"
                /\ {"year", "limit"} \subseteq request.params.has
                /\ request.params.limit = ToString(limit)
                /\ decodeParam(request.params.year) = intent.year
            /\ QuerySucceeded /\ n = 0 =>
                result = Fulfilled(<<"No categories found for ", intent.year, ".">>)
            /\ QuerySucceeded /\ n > 0 =>
                /\ Answered
                /\ n <= limit
                /\ Len(v) >= 6 * n + 4
                /\ \A k \in 1..n :
                      /\ v[6 * k] = ToString(k)
                      /\ v[6 * k + 1] = ". "
                      /\ v[6 * k + 2] = rows[k].category
                      /\ v[6 * k + 3] = ": "
                      /\ v[6 * k + 4] = "$" \o toLocaleString(rows[k].total)
                /\ Cardinality({p \in DOMAIN v : v[p] = ". "}) = n

\* a category_rank resolution whose limit cut the ranking short
C8_Witness ==
    /\ QuerySucceeded /\ Answered
    /\ intent.action = "category_rank"
    /\ intent.top_n = Num(1)
    /\ Len(CategoryRows(db, intent.year)) = 2
    /\ Len(body.data) = 1
    /\ Cites(result.value)

\* C9: category_share: the share row is selected by case-insensitive exact match
\* of the category name; with no matching row the answer is 'No data for
\* <category> in <year>'; otherwise it reports the matched row's amount and its
\* percentage of the year total.
C9_CategoryShare ==
    QuerySucceeded /\ intent.action = "category_share" =>
        LET rows == body.data
            matches == {k \in DOMAIN rows :
                           SameNameIgnoringCase(rows[k].category, intent.category)}
            v == result.value
        IN  IF matches = {}
            THEN result = Fulfilled(<<"No data for ", intent.category, " in ",
                                      intent.year, ".">>)
            ELSE /\ Answered
                 /\ Len(v) >= 10
                 /\ \E k \in matches :
                        /\ v[5] = "$" \o toLocaleString(rows[k].total)
                        /\ v[7] = ToString(rows[k].pct_of_year)
                 /\ v[10] = "v_category_shares"

\* a category_share resolution matched on a name that differs in letter case
C9_Witness ==
    /\ QuerySucceeded /\ Answered
    /\ intent.action = "category_share"
    /\ intent.category = "police department"
    /\ Len(body.data) = 2
    /\ body.data[2].category = "Police Department"
    /\ body.data[2].total < body.data[1].total
    /\ result.value[5] = "$" \o toLocaleString(body.data[2].total)
    /\ Cites(result.value)

\* C10: line_item_total: the answer reports the amount the view returned for
\* exactly the intent's (year, category, line item), and the partial note is
\* appended exactly when the intent's year is FY26.
C10_LineItemTotal ==
    Answered /\ intent.action = "line_item_total" =>
        /\ adapter = "ok"
        /\ result.value[7] = "$" \o toLocaleString(
                getLineItemTotal(db, intent.year, intent.category, intent.line_item))
        /\ HasNote(result.value) <=> intent.year = "FY26"


\* C11: help: handleIntent returns the provided help text unchanged and invokes
\* no query.
C11_HelpVerbatim ==
    Settled /\ intent.action = "help" =>
        /\ result = Fulfilled(<<intent.question>>)
        /\ fetches = <<>>
        /\ request = NoRequest
        /\ adapter = "none" /\ call = NoCall

\* a help intent has been resolved
C11_Witness ==
    /\ Settled /\ intent.action = "help" /\ intent.question \in HelpTexts
    /\ result.status = "fulfilled" /\ result.value # <<>>

C19_AtMostTwoQueriesNoRetry ==
    /\ Len(fetches) <= 2
    /\ Len(fetches) = 2 => intent.action = "yoy_difference"
    /\ intent.action = "help" => fetches = <<>>
    /\ \A j \in DOMAIN fetches : \A k \in DOMAIN fetches :
          j # k => fetches[j] # fetches[k]
    /\ pc = "idle" => fetches = <<>>

\* a resolution whose query failed has settled after its single fetch
C19_Witness ==
    /\ Settled /\ adapter = "failed"
    /\ intent.action = "yoy_difference"
    /\ Len(fetches) = 1

\* ---- the endpoints requested directly (SpecApi) ----

\* a response has been produced for the request in flight
Responded == pc = "responded"
Sent(name) == name \in request.params.has
\* the value the client sent for a parameter, or the stated default
SentOr(name, default) ==
    IF Sent(name) THEN decodeParam(request.params[name]) ELSE default

\* C12: the category-YoY endpoint answers HTTP 400 {success:false,
\* error:"Category parameter is required"} without invoking the adapter when
\* the category is missing or empty; otherwise it invokes getCategoryYoY with
\* year1 (default FY24), year2 (default FY25) and the category.
C12_CategoryRequired ==
    (Responded /\ request.path = "/api/budget/category-yoy") =>
        IF SentOr("category", "") = ""
        THEN /\ body.status = 400
             /\ body.success = FALSE
             /\ body.error = "Category parameter is required"
             /\ "data" \notin body.has
             /\ call = NoCall
             /\ adapter = "none"
        ELSE /\ call.fn = "getCategoryYoY"
             /\ call.year = SentOr("year1", "FY24")
             /\ call.year2 = SentOr("year2", "FY25")
             /\ call.category = SentOr("category", "")
             /\ adapter # "none"

\* an empty category sent along with both years was refused
C12_Witness ==
    /\ Responded /\ request.path = "/api/budget/category-yoy"
    /\ Sent("category") /\ request.params.category = ""
    /\ Sent("year1") /\ Sent("year2")
    /\ body.status = 400 /\ call = NoCall

C14_UniformEnvelope ==
    Responded =>
        IF body.success
        THEN {"success", "data", "message"} \subseteq body.has
        ELSE {"success", "error", "details"} \subseteq body.has

\* the years a request names, defaults included, on the endpoints that take one
YearsOfRequest ==
    CASE request.path \in {"/api/budget/category", "/api/budget/shares"}
           -> {SentOr("year", "FY25")}
      [] request.path = "/api/budget/line-item" -> {SentOr("year", "FY24")}
      [] request.path = "/api/budget/category-yoy"
           -> {SentOr("year1", "FY24"), SentOr("year2", "FY25")}
      [] OTHER -> {}

\* C15: a successful response carries the boolean partial flag, true exactly
\* when the requested year (year, year1 or year2) is FY26.
C15_PartialFlag ==
    (Responded /\ body.success /\ YearsOfRequest # {}) =>
        /\ "partial" \in body.has
        /\ body.partial = ("FY26" \in YearsOfRequest)

DigitCount(n) == CHOOSE k \in 1..(MaxExponent + 2) : n < 10 ^ k /\ (k = 1 \/ n >= 10 ^ (k - 1))
\* the i-th decimal digit of n from the left
DigitAt(n, i) == (n \div (10 ^ (DigitCount(n) - i))) % 10
\* n written digit by digit, a comma before every digit that is followed by a
\* multiple of three digits
RECURSIVE SpellFrom(_, _)
SpellFrom(n, i) ==
    IF i > DigitCount(n) THEN ""
    ELSE (IF i > 1 /\ (DigitCount(n) - i + 1) % 3 = 0 THEN "," ELSE "")
         \o ToString(DigitAt(n, i)) \o SpellFrom(n, i + 1)
WithThousandsSeparators(n) ==
    IF n < 0 THEN "-" \o SpellFrom(-n, 1) ELSE SpellFrom(n, 1)

\* C18: an amount that is null, undefined or NaN renders as '$0'; any other
\* numeric amount renders as '$' followed by the number with thousands
\* separators.
C18_CurrencyFormatting ==
    rendered # "" =>
        IF amount.t \in {"null", "undefined", "NaN"} THEN rendered = "$0"
        ELSE rendered = "$" \o WithThousandsSeparators(amount.n)

\* an amount above a million with zeros inside its groups has been formatted
C18_Witness ==
    /\ amount = Num(9000001)
    /\ rendered = "$9,000,001"

\* ---- independence of resolutions (SpecConc) ----

\* the outcomes handleIntent(i) can have when it is the only call in progress
SoloOutcomes(i, d) ==
    IF i.action = "help" THEN {Fulfilled(<<i.question>>)}
    ELSE {handleIntent(i, GET(FetchOf(i), d, fails)) : fails \in BOOLEAN}
         \cup {Rejected("TypeError: fetch failed")}

\* C20: whatever the interleaving of the resolutions in progress, each one's
\* answer is computed from its own intent and the response returned to its own
\* request, and is an answer the same intent gets when resolved alone.
C20_NoCrossRequestInteraction ==
    \A c \in Callers :
        /\ resolutions[c].pc \in {"responded", "done"} /\ resolutions[c].body # NoBody =>
              \E fails \in BOOLEAN :
                  resolutions[c].body = GET(FetchOf(resolutions[c].intent), db, fails)
        /\ resolutions[c].pc = "done" =>
              /\ resolutions[c].result \in SoloOutcomes(resolutions[c].intent, db)
              /\ resolutions[c].body # NoBody =>
                    resolutions[c].result =
                        handleIntent(resolutions[c].intent, resolutions[c].body)

\* one call settled with an amount while the server's latest response was the
\* other call's, for a different intent
C20_Witness ==
    /\ resolutions["first"].pc = "done"
    /\ resolutions["first"].intent.action = "line_item_total"
    /\ resolutions["first"].result.status = "fulfilled"
    /\ resolutions["first"].body.total > 0
    /\ resolutions["second"].pc = "responded"
    /\ resolutions["second"].intent.action = "category_rank"
    /\ body = resolutions["second"].body
    /\ body # resolutions["first"].body

\* ---- the store and the series ----

NextYear(y) ==
    CASE y = "FY24" -> "FY25"
      [] y = "FY25" -> "FY26"
      [] OTHER -> ""

\* C22: in the yoy series yoy_change of a year is total(year) - total(previous
\* year) and the earliest year has none; and the delta yoy_difference reports
\* for two consecutive years is the yoy_change of the later year.
C22_YoYSeries ==
    /\ (pc \in {"responded", "done"} /\ adapter = "ok"
          /\ request.path = "/api/budget/yoy") =>
          \A k \in DOMAIN body.data :
              body.data[k].yoy_change =
                  IF k = 1 THEN Null
                  ELSE Num(body.data[k].total - body.data[k - 1].total)
    /\ (QuerySucceeded /\ intent.action = "yoy_difference"
          /\ intent.year_to = NextYear(intent.year_from)) =>
          /\ Answered
          /\ \E k \in RowsOfYear(intent.year_to) :
                /\ Len(result.value) >= 6
                /\ result.value[6] = "$" \o toLocaleString(body.data[k].yoy_change.n)

C24_ResolverReadsEnvelope ==
    (QuerySucceeded /\ intent.action \in {"year_total", "yoy_difference", "yoy_all"}) =>
        /\ Answered
        /\ \A k \in DOMAIN result.value :
              result.value[k] \in UsdTokens =>
                  \E a \in ReturnedAmounts : result.value[k] = "$" \o toLocaleString(a)

----------------------------------------------------------------------------
(* Properties of the chat widget *)

\* the entry appended last is an assistant entry
LastIsAssistant ==
    /\ widget.conversation # <<>>
    /\ widget.conversation[Len(widget.conversation)].sender = "assistant"
IsPrefix(a, b) == Len(a) <= Len(b) /\ SubSeq(b, 1, Len(a)) = a

\* C25: at most one /ask request is in flight at any time: sendMessage starts
\* a request only when isLoading is false, and isLoading is true from the start
\* of a request until its response or error has been handled.
C25_OneRequestInFlight ==
    [][/\ widget'.started > widget.started => ~widget.isLoading
       /\ Len(widget'.requests) <= 1
       /\ widget'.isLoading <=> widget'.requests # <<>>]_vars

\* Enter or a send click can arrive with a question typed while a request is in flight
C25_Witness ==
    /\ widget.isLoading
    /\ widget.panelOpen /\ ~widget.inputDisabled
    /\ trim(widget.inputValue) # ""
    /\ Len(widget.requests) = 1

\* C26: while a request is in flight the text input and the send button stay
\* disabled, whatever clicks and enabling timers interleave with it.
C26_DisabledWhileLoading ==
    widget.isLoading => widget.inputDisabled /\ widget.sendDisabled

C28_PersistedConversation ==
    /\ [](/\ (widget.persistentMode /\ widget.localStorage.works) =>
                /\ widget.localStorage.present
                /\ widget.localStorage.value = stringify(widget.conversation)
          /\ ~widget.persistentMode =>
                /\ widget.localStorage.reads = 0
                /\ widget.localStorage.writes = 0
                /\ ~widget.localStorage.present)
    /\ [][/\ widget'.page = widget.page =>
                IsPrefix(widget.conversation, widget'.conversation)
          /\ (widget'.page # widget.page /\ widget.persistentMode
                /\ widget.localStorage.works) =>
                /\ widget'.conversation = parse(widget.localStorage.value)
                /\ widget'.conversation = widget.conversation]_vars

\* a second page started with a stored exchange whose answer had no content
C28_Witness ==
    /\ widget.page = 2
    /\ widget.persistentMode /\ widget.localStorage.works
    /\ Len(widget.conversation) = 2
    /\ widget.conversation[2].content = NoStr
    /\ widget.requests = <<>> /\ ~widget.isLoading
    /\ ~widget.welcome

\* C29: isOpen and isMinimized are never both true, and exactly the element
\* of the display state is shown: the panel when open, the minimized button
\* when minimized, the full chat button when closed.
C29_OneDisplayState ==
    /\ ~(widget.isOpen /\ widget.isMinimized)
    /\ widget.panelOpen <=> widget.isOpen
    /\ widget.minimizedShown <=> (~widget.isOpen /\ widget.isMinimized)
    /\ widget.toggleShown <=> (~widget.isOpen /\ ~widget.isMinimized)
    /\ Cardinality({e \in {"panel", "minimized", "toggle"} :
                      \/ e = "panel" /\ widget.panelOpen
                      \/ e = "minimized" /\ widget.minimizedShown
                      \/ e = "toggle" /\ widget.toggleShown}) = 1

\* the widget was minimized while a request was in flight
C29_Witness ==
    /\ widget.isMinimized /\ widget.minimizedShown
    /\ widget.isLoading
    /\ widget.timers > 0

\* C30: a conversation that starts empty alternates user and assistant entries
\* beginning with a user entry, and an empty or whitespace-only input adds no
\* entry and starts no request.
C30_Alternation ==
    /\ [](\A k \in DOMAIN widget.conversation :
            widget.conversation[k].sender =
                IF k % 2 = 1 THEN "user" ELSE "assistant")
    /\ [][(trim(widget.inputValue) = "" /\ widget.requests = <<>>) =>
             /\ widget'.conversation = widget.conversation
             /\ widget'.requests = <<>>
             /\ widget'.started = widget.started]_vars

\* a second question was sent after the first was answered, and blanks are typed
C30_Witness ==
    /\ Len(widget.conversation) = 4
    /\ widget.conversation[3].sender = "user"
    /\ widget.conversation[4].sender = "assistant"
    /\ widget.inputValue = "   "
    /\ ~widget.inputDisabled /\ widget.panelOpen

====
